---- MODULE Spec2Model ----
(***************************************************************************)
(* VoiceToTextScreen (src/App.tsx): the recording / transcription /        *)
(* playback lifecycle of the screen component, as a state machine.         *)
(*                                                                         *)
(* The React state of the component and the two module-level globals       *)
(* (Whisper, sound) are the variables.  Every async function is cut at its *)
(* awaits: the code between two awaits runs to completion on the single JS *)
(* thread and is one action; a suspended call is an entry of `tasks`, and  *)
(* the collaborator (capture, file store, engine, playback) decides when   *)
(* and how it resumes.                                                     *)
(***************************************************************************)
EXTENDS Integers, Sequences, FiniteSets, TLC

(***************************************************************************)
(* Bounds of the model.                                                    *)
(***************************************************************************)
\* user button presses in one run
MaxPresses == 4
\* collaborator calls that fail (or misbehave) in one run
MaxFailures == 1
\* button presses in the runs that start at the construction of the screen
StartupPresses == 2
\* calls in the runs that call the handlers directly
ApiCalls == 2

\* presses after the first recording was played back
ReplayPresses == 2

(***************************************************************************)
(* JavaScript values.  An optional value (a property that may be missing,  *)
(* undefined or null) is a sequence of length 0 or 1.                      *)
(***************************************************************************)
None == <<>>
Some(v) == <<v>>
IsSome(o) == o # <<>>
Get(o) == o[1]

\* truthiness of a string: only the empty string is falsy
TruthyStr(s) == s # ""

RECURSIVE JoinFrom(_, _, _)
JoinFrom(parts, sep, i) ==
  IF i > Len(parts) THEN ""
  ELSE IF i = Len(parts) THEN parts[i]
  ELSE parts[i] \o sep \o JoinFrom(parts, sep, i + 1)

\* Array.prototype.join on an array of strings
Join(parts, sep) == JoinFrom(parts, sep, 1)

\* error.message of the failures the collaborators raise
ErrMsgs == {"EIO"}

\* message of the TypeError raised by calling a missing method (V8, Hermes)
TypeErrMsgs ==
  {"Whisper.transcribe is not a function", "undefined is not a function"}

(***************************************************************************)
(* Values of the Whisper global: undefined until initWhisper resolves,     *)
(* then whatever it resolved to.                                           *)
(***************************************************************************)
UndefinedEngine == [kind |-> "undefined", transcribe |-> FALSE]
NullEngine == [kind |-> "null", transcribe |-> FALSE]
BrokenEngine == [kind |-> "object", transcribe |-> FALSE]
GoodEngine == [kind |-> "object", transcribe |-> TRUE]

\* what initWhisper can resolve to
EngineValues == {GoodEngine, BrokenEngine, NullEngine}

TruthyEngine(w) == w.kind = "object"

\* JSON.stringify of an engine object (functions are not serialised)
EngineJson(w) == IF w.kind = "object" THEN "{\"id\":1}" ELSE "null"

(***************************************************************************)
(* Values Whisper.transcribe can resolve to.                               *)
(*   kind     "undefined", "string" (a primitive) or "object"              *)
(*   promise  the settlement of result.promise, when the property is set   *)
(*   text     result.text, when the property is set                        *)
(* A settlement is a rejection (err) or a resolution to null or to an      *)
(* object with optional result and segments; a segment is its optional     *)
(* text.                                                                   *)
(***************************************************************************)
Rejected(e) ==
  [settle |-> "reject", err |-> e, isNull |-> FALSE,
   result |-> None, segments |-> None]
ResolvedNull ==
  [settle |-> "resolve", err |-> "", isNull |-> TRUE,
   result |-> None, segments |-> None]
Resolved(r, s) ==
  [settle |-> "resolve", err |-> "", isNull |-> FALSE,
   result |-> r, segments |-> s]

UndefinedResult == [kind |-> "undefined", promise |-> None, text |-> None]
StringResult == [kind |-> "string", promise |-> None, text |-> None]
ObjectResult(p, t) == [kind |-> "object", promise |-> p, text |-> t]

SegmentLists ==
  { <<>>,
    << Some("a"), Some("b") >>,
    << Some("b"), Some("a") >>,
    << Some("a"), None, Some("b") >>,
    << Some("") >> }

Settlements ==
  {Rejected(e) : e \in ErrMsgs} \cup {ResolvedNull}
    \cup {Resolved(r, s) :
            r \in {None, Some(""), Some("hello")},
            s \in {None} \cup {Some(l) : l \in SegmentLists}}

\* every shape of result the normalisation distinguishes
Results ==
  {UndefinedResult, StringResult}
    \cup {ObjectResult(p, t) :
            p \in {None} \cup {Some(x) : x \in Settlements},
            t \in {None, Some(""), Some("x")}}

\* the shapes used in the full lifecycle runs
LifecycleResults ==
  { ObjectResult(None, Some("test")),
    ObjectResult(Some(Resolved(Some("hello"), None)), None),
    ObjectResult(None, None) }

(***************************************************************************)
(* JSON.stringify of the values above, as the debug log prints them.       *)
(***************************************************************************)
JsonString(s) == "\"" \o s \o "\""

JsonSegment(seg) ==
  IF IsSome(seg) THEN "{\"text\":" \o JsonString(Get(seg)) \o "}" ELSE "{}"

JsonSegments(l) ==
  "[" \o Join([i \in 1..Len(l) |-> JsonSegment(l[i])], ",") \o "]"

JsonSettlement(o) ==
  IF o.isNull THEN "null"
  ELSE "{"
       \o (IF IsSome(o.result)
             THEN "\"result\":" \o JsonString(Get(o.result)) ELSE "")
       \o (IF IsSome(o.result) /\ IsSome(o.segments) THEN "," ELSE "")
       \o (IF IsSome(o.segments)
             THEN "\"segments\":" \o JsonSegments(Get(o.segments)) ELSE "")
       \o "}"

\* a promise has no enumerable property: it prints as {}
JsonResult(r) ==
  IF r.kind = "undefined" THEN "undefined"
  ELSE IF r.kind = "string" THEN JsonString("s")
  ELSE "{"
       \o (IF IsSome(r.promise) THEN "\"promise\":{}" ELSE "")
       \o (IF IsSome(r.promise) /\ IsSome(r.text) THEN "," ELSE "")
       \o (IF IsSome(r.text) THEN "\"text\":" \o JsonString(Get(r.text)) ELSE "")
       \o "}"

(***************************************************************************)
(* processAudio's handling of the result formats (lines 190-217).          *)
(***************************************************************************)
\* a chain that looks for the direct text before the promise
ResultBranchTextFirst(r) ==
  IF r.kind # "undefined" /\ IsSome(r.text) /\ TruthyStr(Get(r.text))
    THEN "text"
  ELSE IF r.kind = "object" /\ IsSome(r.promise) THEN "promise"
  ELSE "unexpected"

\* which branch of the if / else-if / else chain a result takes
ResultBranch(r) ==
  IF r.kind = "object" /\ IsSome(r.promise) THEN "promise"
  ELSE IF r.kind # "undefined" /\ IsSome(r.text) /\ TruthyStr(Get(r.text))
    THEN "text"
  ELSE "unexpected"

\* segments.map(segment => segment.text).join(' '): a missing text joins as ''
SegmentsText(l) ==
  Join([i \in 1..Len(l) |-> IF IsSome(l[i]) THEN Get(l[i]) ELSE ""], " ")

\* what the promise branch does with the awaited value: the text it sets, or
\* the message of the error it throws
ResolvedOutcome(o) ==
  IF ~o.isNull /\ IsSome(o.result) /\ TruthyStr(Get(o.result))
    THEN [ok |-> TRUE, text |-> Get(o.result)]
  ELSE IF ~o.isNull /\ IsSome(o.segments) /\ Len(Get(o.segments)) > 0
    THEN [ok |-> TRUE, text |-> SegmentsText(Get(o.segments))]
  ELSE [ok |-> FALSE, text |-> "No transcription text in resolved result"]

\* the text the catch block shows and logs for an error
ErrorText(message) == "Error processing audio: " \o message

(***************************************************************************)
(* State.                                                                  *)
(***************************************************************************)
VARIABLES
  phase,           \* "constructed", "mounted" or "unmounted"
  platform,        \* Platform.OS
  isRecording,     \* useState(false)
  transcription,   \* useState('')
  isProcessing,    \* useState(false)
  audioFile,       \* useState(null): None or Some(path)
  isPlaying,       \* useState(false)
  audioDuration,   \* useState(0), in tenths of a second
  debugLogs,       \* useState([])
  Whisper,         \* the module-level engine reference
  sound,           \* the module-level playback handle: 0 is undefined
  sounds,          \* every Sound constructed so far
  tasks,           \* the suspended calls of the async functions
  now,             \* Date.now()
  presses,         \* button presses so far
  failures,        \* collaborator failures so far
  lastOp,          \* the step just taken
  lastRes,         \* the transcription result last handled by processAudio
  unhandled,       \* operations whose promise was rejected with nobody catching
  transcribeCalls, \* calls of Whisper.transcribe that reached the engine
  unlinkCalls,     \* calls of RNFS.unlink
  transcribed      \* the text each finished processAudio(path) has set, in order

react == <<isRecording, transcription, isProcessing, audioFile, isPlaying,
           audioDuration>>
player == <<sound, sounds>>
calls == <<transcribeCalls, unlinkCalls>>
vars == <<phase, platform, isRecording, transcription, isProcessing, audioFile,
          isPlaying, audioDuration, debugLogs, Whisper, sound, sounds, tasks,
          now, presses, failures, lastOp, lastRes, unhandled, transcribeCalls,
          unlinkCalls, transcribed>>

\* a log that puts the new entry first
addDebugLogFirst(prevLogs, message) == <<message>> \o prevLogs

\* a log whose update hands back the previous array
addDebugLogDropped(prevLogs, message) == prevLogs

\* addDebugLog: setDebugLogs(prevLogs => [...prevLogs, message])
addDebugLog(prevLogs, message) == Append(prevLogs, message)

RECURSIVE LogAllFrom(_, _, _)
LogAllFrom(logs, messages, i) ==
  IF i > Len(messages) THEN logs
  ELSE LogAllFrom(addDebugLog(logs, messages[i]), messages, i + 1)

\* the queued addDebugLog updates of one step, applied in call order
Logged(messages) == debugLogs' = LogAllFrom(debugLogs, messages, 1)

Task(op, pc, path, res) == [op |-> op, pc |-> pc, path |-> path, res |-> res]
Suspend(op, pc, path) == Task(op, pc, path, UndefinedResult)

RemoveAt(seq, i) == SubSeq(seq, 1, i - 1) \o SubSeq(seq, i + 1, Len(seq))

\* the task at i resumes and suspends again at pc
Continue(i, pc, path, res) ==
  tasks' = [tasks EXCEPT ![i] = Task(tasks[i].op, pc, path, res)]
\* the task at i runs to its end
Finish(i) == tasks' = RemoveAt(tasks, i)

\* the collaborator may fail while the run's budget of failures lasts
MayFail(c) == failures < c.failures
Failed == failures' = failures + 1
NotFailed == failures' = failures

\* `${RNFS.DocumentDirectoryPath}/${modelFileName}`
modelPath == "/documents/ggml-base.bin"

\* `${RNFS.ExternalDirectoryPath}/recording_${Date.now()}.wav`
RecordingPath(t) == "/external/recording_" \o ToString(t) \o ".wav"

\* the sizes RNFS.stat reports
FileSizes == {44}

\* the durations getDuration reports for a loaded sound
Durations == {125}

Init ==
  /\ phase = "constructed"
  /\ platform \in {"android", "ios"}
  /\ isRecording = FALSE
  /\ transcription = ""
  /\ isProcessing = FALSE
  /\ audioFile = None
  /\ isPlaying = FALSE
  /\ audioDuration = 0
  /\ debugLogs = <<>>
  /\ Whisper = UndefinedEngine
  /\ sound = 0
  /\ sounds = <<>>
  /\ tasks = <<>>
  /\ now = 0
  /\ presses = 0
  /\ failures = 0
  /\ lastOp = "render"
  /\ lastRes = UndefinedResult
  /\ unhandled = {}
  /\ transcribeCalls = 0
  /\ unlinkCalls = 0
  /\ transcribed = <<>>

(***************************************************************************)
(* Startup: the mount effect runs setupAudioRecord and initWhispers up to  *)
(* their first await.                                                      *)
(***************************************************************************)
\* AudioRecord.init(options) and the log after it, between the logs queued
\* before and after it in the same step (prior: the failures already counted
\* in the step); init is called outside any try block, so its failure rejects
\* setupAudioRecord's promise
CaptureInit(c, prior, before, after, throws) ==
  IF throws
    THEN /\ failures + prior < c.failures
         /\ failures' = failures + prior + 1
         /\ Logged(before \o after)
         /\ unhandled' = unhandled \cup {"setupAudioRecord"}
    ELSE /\ failures' = failures + prior
         /\ Logged(before \o <<"Audio Record initialized">> \o after)
         /\ UNCHANGED unhandled

Mount(c) ==
  /\ phase = "constructed"
  /\ phase' = "mounted"
  /\ lastOp' = "mount"
  /\ IF platform = "android"
       THEN \* setupAudioRecord is suspended in requestMicrophonePermission
            /\ tasks' = << Suspend("setupAudioRecord", "permission", ""),
                           Suspend("initWhispers", "exists", "") >>
            /\ Logged(<<"Initializing Whisper...">>)
            /\ UNCHANGED <<failures, unhandled>>
       ELSE /\ tasks' = << Suspend("initWhispers", "exists", "") >>
            /\ \E throws \in BOOLEAN :
                 CaptureInit(c, 0, <<>>, <<"Initializing Whisper...">>, throws)
  /\ UNCHANGED <<platform, react, Whisper, player, now, presses, lastRes, calls, transcribed>>
\* the log of requestMicrophonePermission for each way the request settles
PermissionLog(answer) ==
  IF answer = "granted" THEN "Microphone permission granted"
  ELSE IF answer \in ErrMsgs
    THEN "Error requesting microphone permission: " \o answer
  ELSE "Microphone permission denied"

\* PermissionsAndroid.request settles (a rejection is caught inside
\* requestMicrophonePermission); setupAudioRecord goes on to init
PermissionSettled(c) ==
  \E i \in 1..Len(tasks) :
    /\ phase = "mounted"
    /\ tasks[i].op = "setupAudioRecord"
    /\ tasks[i].pc = "permission"
    /\ Finish(i)
    /\ lastOp' = "setupAudioRecord"
    /\ \E answer \in {"granted", "denied", "never_ask_again"} \cup ErrMsgs,
          throws \in BOOLEAN :
         /\ answer \in ErrMsgs => MayFail(c)
         /\ CaptureInit(c, IF answer \in ErrMsgs THEN 1 ELSE 0,
                        <<PermissionLog(answer)>>, <<>>, throws)
    /\ UNCHANGED <<phase, platform, react, Whisper, player, now, presses,
                   lastRes, calls, transcribed>>

\* the catch block of initWhispers
InitWhispersFailed(i, before, message) ==
  /\ Finish(i)
  /\ Logged(before \o <<"Failed to initialize Whisper: " \o message>>)

\* RNFS.exists(modelPath) settles
ModelExistsSettled(c) ==
  \E i \in 1..Len(tasks) :
    /\ phase = "mounted"
    /\ tasks[i].op = "initWhispers"
    /\ tasks[i].pc = "exists"
    /\ lastOp' = "initWhispers"
    /\ \/ \E modelExists \in BOOLEAN :
            /\ NotFailed
            /\ Logged(<< "Model exists: "
                           \o (IF modelExists THEN "true" ELSE "false"),
                         "Model path: " \o modelPath >>)
            /\ Continue(i, IF modelExists THEN "init" ELSE "copy", "",
                        UndefinedResult)
       \/ \E e \in ErrMsgs :
            /\ MayFail(c)
            /\ Failed
            /\ InitWhispersFailed(i, <<>>, e)
    /\ UNCHANGED <<phase, platform, react, Whisper, player, now, presses,
                   lastRes, unhandled, calls, transcribed>>

\* RNFS.copyFileAssets / RNFS.copyFile settles
ModelCopySettled(c) ==
  \E i \in 1..Len(tasks) :
    /\ phase = "mounted"
    /\ tasks[i].op = "initWhispers"
    /\ tasks[i].pc = "copy"
    /\ lastOp' = "initWhispers"
    /\ \/ /\ NotFailed
          /\ Logged(<<"Model file copied">>)
          /\ Continue(i, "init", "", UndefinedResult)
       \/ \E e \in ErrMsgs :
            /\ MayFail(c)
            /\ Failed
            /\ InitWhispersFailed(i, <<>>, e)
    /\ UNCHANGED <<phase, platform, react, Whisper, player, now, presses,
                   lastRes, unhandled, calls, transcribed>>

\* the check of line 139 on the value just assigned to Whisper
ProperlyInitialized(w) == TruthyEngine(w) /\ w.transcribe

\* initWhisper({filePath}) settles: the result is assigned to the global
\* before it is checked
InitWhisperSettled(c) ==
  \E i \in 1..Len(tasks) :
    /\ phase = "mounted"
    /\ tasks[i].op = "initWhispers"
    /\ tasks[i].pc = "init"
    /\ lastOp' = "initWhispers"
    /\ \/ \E w \in EngineValues :
            /\ Whisper' = w
            /\ IF ProperlyInitialized(w)
                 THEN /\ NotFailed
                      /\ Finish(i)
                      /\ Logged(<< "Whisper object: " \o EngineJson(w),
                                   "Whisper initialized successfully" >>)
                 ELSE /\ MayFail(c)
                      /\ Failed
                      /\ InitWhispersFailed(i, <<>>,
                                            "Whisper not properly initialized")
       \/ \E e \in ErrMsgs :
            /\ MayFail(c)
            /\ Failed
            /\ InitWhispersFailed(i, <<>>, e)
            /\ UNCHANGED Whisper
    /\ UNCHANGED <<phase, platform, react, player, now, presses, lastRes,
                   unhandled, calls, transcribed>>
(***************************************************************************)
(* Recording.                                                              *)
(***************************************************************************)
\* a button press (or, in the runs that call the handlers directly, a call)
Pressed(c, shown) ==
  /\ phase = "mounted"
  /\ presses < c.presses
  /\ presses' = presses + 1
  /\ c.direct \/ shown

\* a startRecording that also clears the transcript
StartRecordingClears ==
  /\ isRecording' = TRUE
  /\ transcription' = ""
  /\ UNCHANGED <<isProcessing, audioFile, isPlaying, audioDuration>>

\* the state startRecording sets (line 151)
StartRecordingSets ==
  /\ isRecording' = TRUE
  /\ UNCHANGED <<transcription, isProcessing, audioFile, isPlaying,
                 audioDuration>>

\* startRecording: AudioRecord.start() is called outside any try block
StartRecording(c) ==
  /\ Pressed(c, ~isRecording)
  /\ lastOp' = "startRecording"
  /\ StartRecordingSets
  /\ \/ /\ NotFailed
        /\ Logged(<<"Started recording">>)
        /\ UNCHANGED unhandled
     \/ /\ MayFail(c)
        /\ Failed
        /\ UNCHANGED debugLogs
        /\ unhandled' = unhandled \cup {"startRecording"}
  /\ UNCHANGED <<phase, platform, Whisper, player, tasks, now, lastRes, calls, transcribed>>

\* stopRecording up to `await AudioRecord.stop()`
StopRecording(c) ==
  /\ Pressed(c, isRecording)
  /\ lastOp' = "stopRecording"
  /\ isRecording' = FALSE
  /\ tasks' = Append(tasks, Suspend("stopRecording", "stop", ""))
  /\ UNCHANGED <<phase, platform, transcription, isProcessing, audioFile,
                 isPlaying, audioDuration, debugLogs, Whisper, player, now,
                 failures, lastRes, unhandled, calls, transcribed>>

\* Date.now() when the file is named: not before the previous reading
Timestamps == {now + 1} \cup (IF now > 0 THEN {now} ELSE {})

\* AudioRecord.stop() settles; the await is outside the try block
CaptureStopSettled(c) ==
  \E i \in 1..Len(tasks) :
    /\ phase = "mounted"
    /\ tasks[i].op = "stopRecording"
    /\ tasks[i].pc = "stop"
    /\ lastOp' = "stopRecording:stopped"
    /\ \/ \E t \in Timestamps :
            /\ NotFailed
            /\ now' = t
            /\ Logged(<<"Stopped recording">>)
            /\ Continue(i, "move", RecordingPath(t), UndefinedResult)
            /\ UNCHANGED unhandled
       \/ /\ MayFail(c)
          /\ Failed
          /\ Finish(i)
          /\ unhandled' = unhandled \cup {"stopRecording"}
          /\ UNCHANGED <<now, debugLogs>>
    /\ UNCHANGED <<phase, platform, react, Whisper, player, presses, lastRes,
                   calls, transcribed>>

\* the catch block of stopRecording
SaveFailed(i, e) ==
  /\ Finish(i)
  /\ Logged(<<"Error saving audio file: " \o e>>)

\* RNFS.moveFile(audio, filePath) settles
MoveSettled(c) ==
  \E i \in 1..Len(tasks) :
    /\ phase = "mounted"
    /\ tasks[i].op = "stopRecording"
    /\ tasks[i].pc = "move"
    /\ lastOp' = "stopRecording:moved"
    /\ \/ /\ NotFailed
          /\ audioFile' = Some(tasks[i].path)
          /\ Logged(<<"Audio file saved: " \o tasks[i].path>>)
          /\ Continue(i, "stat", tasks[i].path, UndefinedResult)
       \/ \E e \in ErrMsgs :
            /\ MayFail(c)
            /\ Failed
            /\ SaveFailed(i, e)
            /\ UNCHANGED audioFile
    /\ UNCHANGED <<phase, platform, isRecording, transcription, isProcessing,
                   isPlaying, audioDuration, Whisper, player, now, presses,
                   lastRes, unhandled, calls, transcribed>>

(***************************************************************************)
(* Transcription.                                                          *)
(***************************************************************************)
\* a processAudio without the check of the engine
EngineUnchecked(w) == TRUE

\* the check of line 181: `if (!Whisper) throw`
EngineReady(w) == TruthyEngine(w)

\* a processAudio without its finally block
FinallySkipped == UNCHANGED isProcessing

\* the finally block of processAudio (221-223)
FinallySets == isProcessing' = FALSE

\* processAudio ends at i: the text is set, or the catch block shows and logs
\* the error; the finally block clears the processing flag
ProcessAudioEnds(i, before, out) ==
  /\ Finish(i)
  /\ FinallySets
  /\ transcription' = IF out.ok THEN out.text ELSE ErrorText(out.text)
  /\ Logged(before \o (IF out.ok THEN <<>> ELSE <<ErrorText(out.text)>>))
  /\ transcribed' =
       Append(transcribed,
              [path |-> tasks[i].path,
               text |-> IF out.ok THEN out.text ELSE ErrorText(out.text)])
  /\ UNCHANGED <<isRecording, audioFile, isPlaying, audioDuration>>

\* processAudio(audio), called at i, up to `await Whisper.transcribe(...)`
ProcessAudioStarts(i, before) ==
  LET begun == before \o <<"Processing audio...">> IN
  IF ~EngineReady(Whisper)
    THEN /\ ProcessAudioEnds(i, begun,
                             [ok |-> FALSE, text |-> "Whisper not initialized"])
         /\ UNCHANGED transcribeCalls
  ELSE IF ~(TruthyEngine(Whisper) /\ Whisper.transcribe)
    THEN \* calling the missing method throws a TypeError inside the try
         /\ \E m \in TypeErrMsgs :
              ProcessAudioEnds(i, begun \o <<"Starting transcription...">>,
                               [ok |-> FALSE, text |-> m])
         /\ UNCHANGED transcribeCalls
  ELSE /\ isProcessing' = TRUE
       /\ Logged(begun \o <<"Starting transcription...">>)
       /\ transcribeCalls' = transcribeCalls + 1
       /\ tasks' = [tasks EXCEPT
                      ![i] = Suspend("processAudio", "transcribe", tasks[i].path)]
       /\ UNCHANGED <<isRecording, transcription, audioFile, isPlaying,
                      audioDuration, transcribed>>

\* RNFS.stat(filePath) settles; on success stopRecording calls processAudio
StatSettled(c) ==
  \E i \in 1..Len(tasks) :
    /\ phase = "mounted"
    /\ tasks[i].op = "stopRecording"
    /\ tasks[i].pc = "stat"
    /\ \/ \E size \in FileSizes :
            /\ NotFailed
            /\ lastOp' = "processAudio"
            /\ ProcessAudioStarts(i, << "Audio file size: " \o ToString(size)
                                          \o " bytes" >>)
       \/ \E e \in ErrMsgs :
            /\ MayFail(c)
            /\ Failed
            /\ lastOp' = "stopRecording:failed"
            /\ SaveFailed(i, e)
            /\ UNCHANGED <<react, transcribeCalls, transcribed>>
    /\ UNCHANGED <<phase, platform, Whisper, player, now, presses, lastRes,
                   unhandled, unlinkCalls>>

\* Whisper.transcribe(audio, options) settles
TranscribeSettled(c) ==
  \E i \in 1..Len(tasks) :
    /\ phase = "mounted"
    /\ tasks[i].op = "processAudio"
    /\ tasks[i].pc = "transcribe"
    /\ \/ \E result \in c.results :
            LET raw == <<"Raw transcription result: " \o JsonResult(result)>> IN
            /\ NotFailed
            /\ IF ResultBranch(result) = "promise"
                 THEN /\ lastOp' = "processAudio:awaiting"
                      /\ Logged(raw)
                      /\ Continue(i, "promise", tasks[i].path, result)
                      /\ UNCHANGED <<react, lastRes, transcribed>>
               ELSE /\ lastOp' = "processAudio:handled"
                    /\ lastRes' = result
                    /\ ProcessAudioEnds(i, raw,
                         IF ResultBranch(result) = "text"
                           THEN [ok |-> TRUE, text |-> Get(result.text)]
                           ELSE [ok |-> FALSE,
                                 text |-> "Unexpected transcription result format"])
       \/ \E e \in ErrMsgs :
            /\ MayFail(c)
            /\ Failed
            /\ lastOp' = "processAudio:rejected"
            /\ ProcessAudioEnds(i, <<>>, [ok |-> FALSE, text |-> e])
            /\ UNCHANGED lastRes
    /\ UNCHANGED <<phase, platform, Whisper, player, now, presses, unhandled,
                   calls>>

\* result.promise settles
PromiseSettled ==
  \E i \in 1..Len(tasks) :
    /\ phase = "mounted"
    /\ tasks[i].op = "processAudio"
    /\ tasks[i].pc = "promise"
    /\ lastOp' = "processAudio:handled"
    /\ lastRes' = tasks[i].res
    /\ LET o == Get(tasks[i].res.promise) IN
       IF o.settle = "reject"
         THEN ProcessAudioEnds(i, <<>>, [ok |-> FALSE, text |-> o.err])
         ELSE ProcessAudioEnds(
                i,
                <<"Resolved transcription result: " \o JsonSettlement(o)>>,
                ResolvedOutcome(o))
    /\ UNCHANGED <<phase, platform, Whisper, player, now, presses, failures,
                   unhandled, calls>>
(***************************************************************************)
(* Playback.  A Sound is constructed loading; its load callback fires      *)
(* once.  play() on a loaded sound keeps the completion callback until the *)
(* playback ends; on a sound that is not loaded it reports failure at      *)
(* once.  stop() on a loaded sound calls back later, and does nothing on a *)
(* sound that is not loaded.                                               *)
(***************************************************************************)
NewSound(path) ==
  [path |-> path, status |-> "loading", duration |-> -1, playCb |-> 0,
   stopCb |-> 0, released |-> FALSE]

\* a handler without its guard
AssetUnchecked(file) == TRUE

\* the guard of playAudio and deleteAudio: `if (audioFile)`
AssetPresent(file) == IsSome(file)

\* the path a handler reads from its audioFile
PathOf(file) == IF IsSome(file) THEN Get(file) ELSE "null"

\* playAudio: a new Sound replaces the global handle
PlayAudio(c) ==
  /\ Pressed(c, IsSome(audioFile) /\ ~isPlaying)
  /\ lastOp' = "playAudio"
  /\ IF AssetPresent(audioFile)
       THEN /\ sounds' = Append(sounds, NewSound(PathOf(audioFile)))
            /\ sound' = Len(sounds) + 1
       ELSE UNCHANGED player
  /\ UNCHANGED <<phase, platform, react, debugLogs, Whisper, tasks, now,
                 failures, lastRes, unhandled, calls, transcribed>>

\* the load callback of sound h fires; it reads the global handle, which is
\* the latest Sound constructed
SoundLoadSettled(c) ==
  \E h \in 1..Len(sounds) :
    /\ phase = "mounted"
    /\ sounds[h].status = "loading"
    /\ \/ \E e \in ErrMsgs :
            /\ MayFail(c)
            /\ Failed
            /\ lastOp' = "playAudio:loadFailed"
            /\ sounds' = [sounds EXCEPT ![h].status = "failed"]
            /\ Logged(<<"Failed to load the sound: " \o e>>)
            /\ UNCHANGED <<isPlaying, audioDuration>>
       \/ \E d \in Durations :
            LET loaded == [sounds EXCEPT ![h].status = "loaded",
                                         ![h].duration = d] IN
            /\ NotFailed
            /\ lastOp' = "playAudio:loaded"
            /\ audioDuration' = loaded[sound].duration
            /\ isPlaying' = TRUE
            /\ IF loaded[sound].status = "loaded"
                 THEN /\ sounds' = [loaded EXCEPT ![sound].playCb = @ + 1]
                      /\ UNCHANGED debugLogs
                 ELSE /\ sounds' = loaded
                      /\ Logged(<<"Playback failed due to audio decoding errors">>)
    /\ UNCHANGED <<phase, platform, isRecording, transcription, isProcessing,
                   audioFile, Whisper, sound, tasks, now, presses, lastRes,
                   unhandled, calls, transcribed>>

\* a failure branch that marks the playback as over
DecodeFailedStops == isPlaying' = FALSE

\* the state the failure branch of the completion callback sets (240-242)
DecodeFailedSets == UNCHANGED isPlaying

\* the completion callback of play fires on sound h
PlayEnded(c) ==
  \E h \in 1..Len(sounds) :
    /\ phase = "mounted"
    /\ sounds[h].playCb > 0
    /\ sounds' = [sounds EXCEPT ![h].playCb = @ - 1]
    /\ \/ /\ NotFailed
          /\ lastOp' = "playAudio:finished"
          /\ Logged(<<"Successfully finished playing">>)
          /\ isPlaying' = FALSE
       \/ /\ MayFail(c)
          /\ Failed
          /\ lastOp' = "playAudio:decodeFailed"
          /\ Logged(<<"Playback failed due to audio decoding errors">>)
          /\ DecodeFailedSets
    /\ UNCHANGED <<phase, platform, isRecording, transcription, isProcessing,
                   audioFile, audioDuration, Whisper, sound, tasks, now,
                   presses, lastRes, unhandled, calls, transcribed>>

\* stopAudio: sound.stop(callback) on the global handle, if there is one
StopAudio(c) ==
  /\ Pressed(c, IsSome(audioFile) /\ isPlaying)
  /\ lastOp' = "stopAudio"
  /\ IF sound # 0 /\ sounds[sound].status = "loaded"
       THEN sounds' = [sounds EXCEPT ![sound].stopCb = @ + 1]
       ELSE UNCHANGED sounds
  /\ UNCHANGED <<phase, platform, react, debugLogs, Whisper, sound, tasks, now,
                 failures, lastRes, unhandled, calls, transcribed>>

\* the callback of stop fires on sound h
SoundStopped ==
  \E h \in 1..Len(sounds) :
    /\ phase = "mounted"
    /\ sounds[h].stopCb > 0
    /\ lastOp' = "stopAudio:stopped"
    /\ sounds' = [sounds EXCEPT ![h].stopCb = @ - 1]
    /\ isPlaying' = FALSE
    /\ UNCHANGED <<phase, platform, isRecording, transcription, isProcessing,
                   audioFile, audioDuration, debugLogs, Whisper, sound, tasks,
                   now, presses, failures, lastRes, unhandled, calls, transcribed>>

(***************************************************************************)
(* Deletion.                                                               *)
(***************************************************************************)
\* deleteAudio up to `await RNFS.unlink(audioFile)`
DeleteAudio(c) ==
  /\ Pressed(c, IsSome(audioFile))
  /\ lastOp' = "deleteAudio"
  /\ IF AssetPresent(audioFile)
       THEN /\ unlinkCalls' = unlinkCalls + 1
            /\ tasks' = Append(tasks,
                               Suspend("deleteAudio", "unlink", PathOf(audioFile)))
       ELSE UNCHANGED <<unlinkCalls, tasks>>
  /\ UNCHANGED <<phase, platform, react, debugLogs, Whisper, player, now,
                 failures, lastRes, unhandled, transcribeCalls, transcribed>>

\* the state deleteAudio sets after the unlink (lines 262-264)
DeletedSets ==
  /\ audioFile' = None
  /\ transcription' = ""
  /\ audioDuration' = 0
  /\ UNCHANGED <<isRecording, isProcessing, isPlaying>>

\* a catch block that clears the asset all the same
DeleteFailedClears ==
  /\ audioFile' = None
  /\ transcription' = ""
  /\ audioDuration' = 0
  /\ UNCHANGED <<isRecording, isProcessing, isPlaying>>

\* the state the catch block of deleteAudio sets (line 267): none
DeleteFailedSets == UNCHANGED react

\* RNFS.unlink(audioFile) settles
UnlinkSettled(c) ==
  \E i \in 1..Len(tasks) :
    /\ phase = "mounted"
    /\ tasks[i].op = "deleteAudio"
    /\ tasks[i].pc = "unlink"
    /\ Finish(i)
    /\ \/ /\ NotFailed
          /\ lastOp' = "deleteAudio:deleted"
          /\ DeletedSets
          /\ Logged(<<"Audio file deleted successfully">>)
       \/ \E e \in ErrMsgs :
            /\ MayFail(c)
            /\ Failed
            /\ lastOp' = "deleteAudio:failed"
            /\ DeleteFailedSets
            /\ Logged(<<"Error deleting audio file: " \o e>>)
    /\ UNCHANGED <<phase, platform, Whisper, player, now, presses, lastRes,
                   unhandled, calls, transcribed>>

(***************************************************************************)
(* Teardown: the cleanup of the mount effect releases the global handle.   *)
(* React drops the state updates of an unmounted component, so the state   *)
(* of the screen stays as it is from here on.                              *)
(***************************************************************************)
Unmount ==
  /\ phase = "mounted"
  /\ phase' = "unmounted"
  /\ lastOp' = "unmount"
  /\ IF sound # 0
       THEN sounds' = [sounds EXCEPT ![sound].released = TRUE]
       ELSE UNCHANGED sounds
  /\ UNCHANGED <<platform, react, debugLogs, Whisper, sound, tasks, now,
                 presses, failures, lastRes, unhandled, calls, transcribed>>

(***************************************************************************)
(* Specifications.                                                         *)
(***************************************************************************)
\* the screen as the user drives it: a handler runs when its button is shown
Ui == [direct |-> FALSE, results |-> LifecycleResults,
       presses |-> MaxPresses, failures |-> MaxFailures]

\* the handlers called directly, whatever the screen shows
Api == [direct |-> TRUE, results |-> LifecycleResults,
        presses |-> ApiCalls, failures |-> MaxFailures]

\* the screen from its construction, startup racing with the first presses
Boot == [direct |-> FALSE, results |-> LifecycleResults,
         presses |-> StartupPresses, failures |-> MaxFailures]

\* a transcription in flight, with every shape of result
Norm == [direct |-> FALSE, results |-> Results,
         presses |-> 0, failures |-> MaxFailures]

Startup(c) ==
  \/ Mount(c)
  \/ PermissionSettled(c)
  \/ ModelExistsSettled(c)
  \/ ModelCopySettled(c)
  \/ InitWhisperSettled(c)

Record(c) ==
  \/ StartRecording(c)
  \/ StopRecording(c)
  \/ CaptureStopSettled(c)
  \/ MoveSettled(c)
  \/ StatSettled(c)
  \/ TranscribeSettled(c)
  \/ PromiseSettled

Playback(c) ==
  \/ PlayAudio(c)
  \/ SoundLoadSettled(c)
  \/ PlayEnded(c)
  \/ StopAudio(c)
  \/ SoundStopped

Delete(c) ==
  \/ DeleteAudio(c)
  \/ UnlinkSettled(c)

\* the log of a startup in which every collaborator call succeeded and the
\* model file was already in place
StartupLog ==
  IF platform = "android"
    THEN << "Initializing Whisper...", "Microphone permission granted",
            "Audio Record initialized", "Model exists: true",
            "Model path: " \o modelPath, "Whisper object: " \o EngineJson(GoodEngine),
            "Whisper initialized successfully" >>
    ELSE << "Audio Record initialized", "Initializing Whisper...",
            "Model exists: true", "Model path: " \o modelPath,
            "Whisper object: " \o EngineJson(GoodEngine),
            "Whisper initialized successfully" >>

\* the screen once that startup is over
Started ==
  /\ phase = "mounted"
  /\ platform \in {"android", "ios"}
  /\ isRecording = FALSE
  /\ transcription = ""
  /\ isProcessing = FALSE
  /\ audioFile = None
  /\ isPlaying = FALSE
  /\ audioDuration = 0
  /\ debugLogs = StartupLog
  /\ Whisper = GoodEngine
  /\ sound = 0
  /\ sounds = <<>>
  /\ tasks = <<>>
  /\ now = 0
  /\ presses = 0
  /\ failures = 0
  /\ lastOp = "initWhispers"
  /\ lastRes = UndefinedResult
  /\ unhandled = {}
  /\ transcribeCalls = 0
  /\ unlinkCalls = 0
  /\ transcribed = <<>>

\* the session of a started screen, driven by the user
Next == Record(Ui) \/ Playback(Ui) \/ Delete(Ui) \/ Unmount
Spec == Started /\ [][Next]_vars

\* the session of a started screen, the handlers called directly
NextApi == Record(Api) \/ Delete(Api)
SpecApi == Started /\ [][NextApi]_vars

\* the screen from its construction: startup racing with the first presses
NextStartup == Startup(Boot) \/ Record(Boot)
SpecStartup == Init /\ [][NextStartup]_vars

\* a started screen whose first recording is being transcribed
Transcribing ==
  /\ phase = "mounted"
  /\ platform \in {"android", "ios"}
  /\ isRecording = FALSE
  /\ transcription = ""
  /\ isProcessing = TRUE
  /\ audioFile = Some(RecordingPath(1))
  /\ isPlaying = FALSE
  /\ audioDuration = 0
  /\ debugLogs = StartupLog \o
       << "Started recording", "Stopped recording",
          "Audio file saved: " \o RecordingPath(1), "Audio file size: 44 bytes",
          "Processing audio...", "Starting transcription..." >>
  /\ Whisper = GoodEngine
  /\ sound = 0
  /\ sounds = <<>>
  /\ tasks = << Suspend("processAudio", "transcribe", RecordingPath(1)) >>
  /\ now = 1
  /\ presses = 2
  /\ failures = 0
  /\ lastOp = "processAudio"
  /\ lastRes = UndefinedResult
  /\ unhandled = {}
  /\ transcribeCalls = 1
  /\ unlinkCalls = 0
  /\ transcribed = <<>>

\* the handling of every shape of transcription result
NextNorm == TranscribeSettled(Norm) \/ PromiseSettled
SpecNorm == Transcribing /\ [][NextNorm]_vars

\* a started screen whose first recording was transcribed as "test" and
\* played back to its end
Played ==
  /\ phase = "mounted"
  /\ platform \in {"android", "ios"}
  /\ isRecording = FALSE
  /\ transcription = "test"
  /\ isProcessing = FALSE
  /\ audioFile = Some(RecordingPath(1))
  /\ isPlaying = FALSE
  /\ audioDuration = 125
  /\ debugLogs = StartupLog \o
       << "Started recording", "Stopped recording",
          "Audio file saved: " \o RecordingPath(1), "Audio file size: 44 bytes",
          "Processing audio...", "Starting transcription...",
          "Raw transcription result: {\"text\":\"test\"}",
          "Successfully finished playing" >>
  /\ Whisper = GoodEngine
  /\ sound = 1
  /\ sounds = << [NewSound(RecordingPath(1)) EXCEPT !.status = "loaded",
                                                     !.duration = 125] >>
  /\ tasks = <<>>
  /\ now = 1
  /\ presses = 3
  /\ failures = 0
  /\ lastOp = "playAudio:finished"
  /\ lastRes = ObjectResult(None, Some("test"))
  /\ unhandled = {}
  /\ transcribeCalls = 1
  /\ unlinkCalls = 0
  /\ transcribed = << [path |-> RecordingPath(1), text |-> "test"] >>

\* the screen after that playback: the three presses so far and the next ones
Replay == [direct |-> FALSE, results |-> LifecycleResults,
           presses |-> 3 + ReplayPresses, failures |-> MaxFailures]

\* the session that goes on after the first playback
NextReplay == Record(Replay) \/ Playback(Replay)
SpecReplay == Played /\ [][NextReplay]_vars

\* the recording and deletion of a started screen, where every collaborator
\* call that was made settles in the end
NextLive == Record(Ui) \/ Delete(Ui)
SpecLive ==
  /\ Started
  /\ [][NextLive]_vars
  /\ WF_vars(CaptureStopSettled(Ui))
  /\ WF_vars(MoveSettled(Ui))
  /\ WF_vars(StatSettled(Ui))
  /\ WF_vars(TranscribeSettled(Ui))
  /\ WF_vars(PromiseSettled)
  /\ WF_vars(UnlinkSettled(Ui))

(***************************************************************************)
(* Properties.                                                             *)
(***************************************************************************)
IsPrefix(a, b) == Len(a) <= Len(b) /\ SubSeq(b, 1, Len(a)) = a

Last(seq) == seq[Len(seq)]

\* C1: isRecording and isProcessing are never both true.
\* (Fails: the record button stays enabled while a transcription is in flight.)
C1_RecordingExcludesProcessing == ~(isRecording /\ isProcessing)

\* the text of a segment, '' when it has none
SegmentText(seg) == IF IsSome(seg) THEN Get(seg) ELSE ""

RECURSIVE SpaceJoined(_)
\* the texts of the segments, in order, with one space between neighbours
SpaceJoined(l) ==
  IF l = <<>> THEN ""
  ELSE IF Len(l) = 1 THEN SegmentText(l[1])
  ELSE SegmentText(Head(l)) \o " " \o SpaceJoined(Tail(l))

\* the normalisation as C2 words it: a property counts when the value has it
ClaimedTranscript(r) ==
  IF r.kind = "object" /\ IsSome(r.promise)
    THEN LET o == Get(r.promise) IN
         IF o.settle = "reject" THEN "Error processing audio: " \o o.err
         ELSE IF ~o.isNull /\ IsSome(o.result) THEN Get(o.result)
         ELSE IF ~o.isNull /\ IsSome(o.segments)
           THEN SpaceJoined(Get(o.segments))
         ELSE "Error processing audio: No transcription text in resolved result"
  ELSE IF IsSome(r.text) THEN Get(r.text)
  ELSE "Error processing audio: Unexpected transcription result format"

\* the normalisation with every test a truthiness test: an empty .result, an
\* empty .segments and an empty .text count as missing
ReferenceTranscript(r) ==
  IF r.kind = "object" /\ IsSome(r.promise)
    THEN LET o == Get(r.promise) IN
         IF o.settle = "reject" THEN "Error processing audio: " \o o.err
         ELSE IF ~o.isNull /\ IsSome(o.result) /\ Get(o.result) # ""
           THEN Get(o.result)
         ELSE IF ~o.isNull /\ IsSome(o.segments) /\ Get(o.segments) # <<>>
           THEN SpaceJoined(Get(o.segments))
         ELSE "Error processing audio: No transcription text in resolved result"
  ELSE IF IsSome(r.text) /\ Get(r.text) # "" THEN Get(r.text)
  ELSE "Error processing audio: Unexpected transcription result format"

\* C2 as stated: for every result, the transcript processAudio sets is the
\* reference normalisation, where a result that has a .text is used as-is.
\* (Fails for {text: ''}, which the code reports as an unexpected format.)
C2_TranscriptAsClaimed ==
  lastOp = "processAudio:handled" => transcription = ClaimedTranscript(lastRes)

\* C2, amended: for every result, the transcript processAudio sets is the
\* reference normalisation in which .promise, .result and .text are used when
\* truthy and .segments when non-empty; the promise is tried before the text.
C2_TranscriptNormalized ==
  lastOp = "processAudio:handled" => transcription = ReferenceTranscript(lastRes)

\* C2: a result with both .promise and .text was handled as the promise case
C2_PromiseBeforeText ==
  /\ lastOp = "processAudio:handled"
  /\ IsSome(lastRes.promise)
  /\ lastRes.text = Some("x")
  /\ transcription = "hello"

\* C3: when processAudio is invoked while the engine reference is null, the
\* engine is not called and the transcript is exactly
\* "Error processing audio: Whisper not initialized".
C3_FailFastWithoutEngine ==
  [][(lastOp' = "processAudio" /\ Whisper.kind \in {"undefined", "null"})
       => /\ transcription' = "Error processing audio: Whisper not initialized"
          /\ transcribeCalls' = transcribeCalls]_vars

\* C3: processAudio has just run before the engine was initialised
C3_InvokedWithoutEngine ==
  /\ lastOp = "processAudio"
  /\ Whisper.kind = "undefined"
  /\ transcribeCalls = 0
  /\ transcription = "Error processing audio: Whisper not initialized"

\* the log entries the catch block of initWhispers writes
InitFailureLogs ==
  {"Failed to initialize Whisper: " \o m :
     m \in ErrMsgs \cup {"Whisper not properly initialized"}}

InitFailed == \E k \in 1..Len(debugLogs) : debugLogs[k] \in InitFailureLogs

\* C4: once engine initialisation has failed (and been logged), the engine
\* reference is null and a transcription attempt fails fast without calling
\* the engine.
\* (Fails: the object initWhisper returned is assigned to the global before it
\* is checked for a transcribe function.)
C4_FailedInitLeavesEngineNull ==
  InitFailed =>
    /\ Whisper.kind \in {"undefined", "null"}
    /\ lastOp = "processAudio" =>
         transcription = "Error processing audio: Whisper not initialized"

\* C5: no operation ends with an uncaught failure.
\* (Fails: AudioRecord.init, AudioRecord.start and the await of
\* AudioRecord.stop are outside every try block.)
C5_NoUncaughtFailure == unhandled = {}

\* C6: deleteAudio with no asset referenced performs no file operation and
\* leaves every state variable unchanged.
C6_DeleteWithoutAssetIsNoOp ==
  [][(lastOp' = "deleteAudio" /\ presses' = presses + 1 /\ audioFile = None)
       => UNCHANGED <<isRecording, transcription, isProcessing, audioFile,
                      isPlaying, audioDuration, debugLogs, unlinkCalls,
                      tasks>>]_vars

\* C6: deleteAudio has just been called with no asset referenced
C6_DeleteCalledWithoutAsset ==
  /\ lastOp = "deleteAudio"
  /\ audioFile = None
  /\ unlinkCalls = 0
  /\ presses > 0

\* the log entries the catch block of deleteAudio writes
DeleteFailureLogs == {"Error deleting audio file: " \o m : m \in ErrMsgs}

\* C7: when the unlink of deleteAudio fails, audioFile, transcription and
\* audioDuration stay as they are and a failure entry is appended to the log.
C7_DeleteFailureKeepsState ==
  [][lastOp' = "deleteAudio:failed"
       => /\ UNCHANGED <<audioFile, transcription, audioDuration>>
          /\ \E m \in DeleteFailureLogs : debugLogs' = Append(debugLogs, m)]_vars

\* C7: an unlink has just failed with the asset and its transcript in place
C7_DeleteFailedWithAsset ==
  /\ lastOp = "deleteAudio:failed"
  /\ IsSome(audioFile)
  /\ transcription = "test"
  /\ Last(debugLogs) \in DeleteFailureLogs

\* a successful delete is the latest of the deletes and recording starts
DeletedSinceLastStart ==
  /\ "startRecording" \notin unhandled
  /\ \E k \in 1..Len(debugLogs) :
       /\ debugLogs[k] = "Audio file deleted successfully"
       /\ \A j \in (k + 1)..Len(debugLogs) : debugLogs[j] # "Started recording"

\* C8: from a successful delete until the next recording is started, the
\* asset reference is null, the duration 0 and the transcript empty.
\* (Fails: a transcription, a save or a sound load still in flight completes
\* after the delete and writes its result.)
C8_ClearedUntilNextRecording ==
  DeletedSinceLastStart =>
    audioFile = None /\ audioDuration = 0 /\ transcription = ""

\* C9 as stated: right after startRecording the transcript is empty.
\* (Fails: startRecording does not touch the transcript.)
C9_StartClearsTranscript == lastOp = "startRecording" => transcription = ""

\* C9, amended: startRecording leaves the transcript as it was; only a
\* successful deleteAudio resets it to the empty string.
C9_StartKeepsTranscript ==
  [][lastOp' = "startRecording" => transcription' = transcription]_vars

\* C9: a recording has just been started with the previous transcript shown
C9_StartedWithTranscript ==
  /\ lastOp = "startRecording"
  /\ isRecording
  /\ transcription = "test"

\* C10: the debug log is append-only and ordered: at every step the previous
\* log is a prefix of the new one.
C10_LogAppendOnly == [][IsPrefix(debugLogs, debugLogs')]_vars

\* C10: the log of a session, each entry after the ones of earlier events
C10_LogInEventOrder ==
  /\ Len(debugLogs) = Len(StartupLog) + 7
  /\ SubSeq(debugLogs, 1, Len(StartupLog)) = StartupLog
  /\ debugLogs[Len(StartupLog) + 1] = "Started recording"
  /\ debugLogs[Len(StartupLog) + 2] = "Stopped recording"
  /\ Last(debugLogs) = "Audio file deleted successfully"
\* the step is the call of a handler that returns without awaiting
SyncHandlerCalled ==
  /\ presses' = presses + 1
  /\ lastOp' \in {"startRecording", "playAudio", "stopAudio"}

\* the step is the first resumption of a handler that awaits
AsyncHandlerResumed ==
  lastOp' \in {"stopRecording:stopped", "deleteAudio:deleted",
               "deleteAudio:failed"}

\* C11 as stated: every user-triggered operation (startRecording,
\* stopRecording, playAudio, stopAudio, deleteAudio) appends at least one
\* entry to the debug log.
\* (Fails even when no collaborator call fails: playAudio and stopAudio
\* return without logging.)
C11_EveryOperationLogs ==
  [][(SyncHandlerCalled \/ AsyncHandlerResumed) /\ failures' = failures
       => Len(debugLogs') > Len(debugLogs)]_vars

\* C11, amended: startRecording appends an entry when the capture starts,
\* stopRecording when the capture stop resolves, and deleteAudio with an asset
\* exactly one when the unlink settles; stopAudio and its stop callback append
\* nothing, and playAudio appends nothing when it is called (only a failed
\* load or the end of the playback is logged).
C11_WhichOperationsLog ==
  [][/\ (lastOp' = "startRecording" /\ failures' = failures)
          => Len(debugLogs') > Len(debugLogs)
     /\ (lastOp' = "stopRecording:stopped" /\ failures' = failures)
          => Len(debugLogs') > Len(debugLogs)
     /\ lastOp' \in {"deleteAudio:deleted", "deleteAudio:failed"}
          => Len(debugLogs') = Len(debugLogs) + 1
     /\ lastOp' \in {"playAudio", "stopAudio", "stopAudio:stopped"}
          => debugLogs' = debugLogs]_vars

\* C11: a playback has been stopped, and neither the stop nor its callback
\* has left an entry after the ones of the recording
C11_StoppedWithoutEntry ==
  /\ lastOp = "stopAudio:stopped"
  /\ ~isPlaying
  /\ presses = 4
  /\ \E k \in 1..Len(debugLogs) :
       /\ debugLogs[k] = "Started recording"
       /\ Len(debugLogs) <= k + 6

\* the Playback handles constructed and not yet released
AliveHandles == {h \in 1..Len(sounds) : ~sounds[h].released}

\* C12: at most one Playback handle is alive at any time: the handle of
\* playAudio is released on completion, on explicit stop and on teardown.
\* (Fails: only the teardown releases, and only the latest handle, so a
\* second playAudio leaves two handles alive.)
C12_AtMostOneHandleAlive == Cardinality(AliveHandles) <= 1

\* a Playback handle of the referenced asset has loaded
AssetLoaded ==
  \E h \in 1..Len(sounds) :
    sounds[h].path = PathOf(audioFile) /\ sounds[h].status = "loaded"

\* C13: after a stop-and-save whose transcription resolves with a direct
\* {text: t} the transcript is t and the asset is present, and the duration
\* is 0 from the creation of the asset until a load of that asset succeeds,
\* for every recording of the session.  (Fails on the second recording:
\* stopRecording leaves the duration of the first playback in place.)
C13_DurationZeroUntilLoaded ==
  /\ (lastOp = "processAudio:handled" /\ ResultBranch(lastRes) = "text")
       => transcription = Get(lastRes.text) /\ IsSome(audioFile)
  /\ (IsSome(audioFile) /\ ~AssetLoaded) => audioDuration = 0

\* the step appended exactly this entry to the log
Appended(entries) ==
  /\ Len(debugLogs') = Len(debugLogs) + 1
  /\ IsPrefix(debugLogs, debugLogs')
  /\ Last(debugLogs') \in entries

\* C14: isPlaying becomes true only when a load succeeds, the duration
\* recorded in the same step; it becomes false only when the completion
\* callback reports success, which logs the completion, or when a stop
\* callback fires.  A failed load logs and neither plays nor changes
\* isPlaying; a completion callback reporting failure logs the decode failure
\* and leaves isPlaying as it was.
C14_PlayingFlagTransitions ==
  [][/\ (~isPlaying /\ isPlaying') => lastOp' = "playAudio:loaded"
     /\ lastOp' = "playAudio:loaded"
          => isPlaying' /\ audioDuration' = sounds'[sound'].duration
     /\ (isPlaying /\ ~isPlaying')
          => \/ /\ lastOp' = "playAudio:finished"
                /\ Appended({"Successfully finished playing"})
             \/ lastOp' = "stopAudio:stopped"
     /\ lastOp' \in {"playAudio:finished", "stopAudio:stopped"} => ~isPlaying'
     /\ lastOp' = "playAudio:loadFailed"
          => /\ isPlaying' = isPlaying
             /\ Appended({"Failed to load the sound: " \o e : e \in ErrMsgs})
             /\ \A h \in 1..Len(sounds) : sounds'[h].playCb = sounds[h].playCb
     /\ lastOp' = "playAudio:decodeFailed"
          => /\ isPlaying' = isPlaying
             /\ Appended({"Playback failed due to audio decoding errors"})]_vars

\* a playback reported a decoding failure and the flag still says playing
C14_DecodeFailedStillPlaying ==
  /\ lastOp = "playAudio:decodeFailed"
  /\ isPlaying
  /\ Last(debugLogs) = "Playback failed due to audio decoding errors"

\* a processAudio is suspended at one of its awaits
InFlight == \E i \in 1..Len(tasks) : tasks[i].op = "processAudio"

\* the texts processAudio extracts from the results of the session, and the
\* texts its catch block shows
ExtractedTexts == {"test", "hello"}
CaughtTexts ==
  {ErrorText(m) : m \in ErrMsgs \cup
                          {"Unexpected transcription result format",
                           "No transcription text in resolved result"}}

\* C15: every processAudio whose collaborator call settles ends with the
\* transcript set to the extracted text or to a text prefixed "Error
\* processing audio: " and with isProcessing cleared, and isProcessing is
\* never left true once no transcription is in flight any more.
C15_ProcessingEnds ==
  /\ [][Len(transcribed') > Len(transcribed)
          => /\ ~isProcessing'
             /\ transcription' \in ExtractedTexts \cup CaughtTexts]_vars
  /\ [](~InFlight => ~isProcessing)
  /\ \A n \in 1..MaxPresses :
       (transcribeCalls = n) ~> (Len(transcribed) >= n)

\* two overlapping transcriptions have both ended, the last one rejected
C15_BothEnded ==
  /\ transcribeCalls = 2
  /\ Len(transcribed) = 2
  /\ ~InFlight
  /\ ~isProcessing
  /\ transcription = ErrorText("EIO")

\* the paths of the stopRecording calls that recorded their asset and have
\* not yet reached processAudio
Recorded(ts) ==
  {ts[i].path : i \in {j \in 1..Len(ts) : ts[j].op = "stopRecording"
                                            /\ ts[j].pc = "stat"}}

\* C16: a stopRecording that recorded its asset begins the transcription of
\* that path: when it leaves its try block processAudio is running on the
\* path and isProcessing is true.  (Fails: RNFS.stat is awaited between the
\* two, and its rejection skips processAudio.)
C16_RecordedAssetIsTranscribed ==
  [][\A p \in Recorded(tasks) \ Recorded(tasks') :
       /\ isProcessing'
       /\ \E j \in 1..Len(tasks') :
            tasks'[j].op = "processAudio" /\ tasks'[j].path = p]_vars

\* C17: in every reachable state isPlaying implies that an asset is
\* referenced.  (Fails: deleteAudio clears audioFile and leaves isPlaying,
\* and a load that succeeds after the delete sets it.)
C17_PlayingImpliesAsset == isPlaying => IsSome(audioFile)

\* no call is suspended, no Playback handle is loading or has a callback due
Quiescent ==
  /\ tasks = <<>>
  /\ \A h \in 1..Len(sounds) :
       /\ sounds[h].status # "loading"
       /\ sounds[h].playCb = 0
       /\ sounds[h].stopCb = 0

\* C18: whenever no asset is referenced and no asynchronous operation is
\* pending the transcript is empty.  (Fails: a processAudio in flight over a
\* successful delete sets the transcript of the deleted asset.)
C18_NoAssetNoTranscript ==
  (Quiescent /\ audioFile = None) => transcription = ""

\* the texts the transcriptions of the referenced asset ended with
TextsOfAsset ==
  {transcribed[k].text :
     k \in {j \in 1..Len(transcribed) : transcribed[j].path = PathOf(audioFile)}}

\* C19: isProcessing stays true as long as a transcription is in flight, and
\* once all have ended the transcript shown is the result for the referenced
\* asset, in whatever order they ended.  (Fails: the first processAudio to
\* end clears the flag, and the last one to end sets the transcript.)
C19_OverlapKeepsLatest ==
  /\ InFlight => isProcessing
  /\ (~InFlight /\ IsSome(audioFile) /\ TextsOfAsset # {})
       => transcription \in TextsOfAsset

\* a call of op is suspended at pc
Suspended(op, pc) ==
  \E i \in 1..Len(tasks) : tasks[i].op = op /\ tasks[i].pc = pc

\* C20: AudioRecord.start() is never called before AudioRecord.init(options)
\* was called, and never while a previous AudioRecord.stop() has not yet
\* resolved.  (Fails: the record button works while the permission request
\* of the startup, or an earlier stop, is still pending.)
C20_CaptureProtocolOrder ==
  [][(lastOp' = "startRecording" /\ presses' = presses + 1)
       => /\ ~Suspended("setupAudioRecord", "permission")
          /\ ~Suspended("stopRecording", "stop")]_vars

====
